---- MODULE Spec2Model ----
(***************************************************************************)
(* panparsex: the AI post-processor (src/src/panparsex/ai_processor.py).   *)
(*                                                                         *)
(* Text is a sequence of symbols.  The symbols " " and "\n" are the        *)
(* whitespace characters, "." is the full stop, "--- Section" is the       *)
(* literal marker text the serializer writes and the chunker splits on,    *)
(* "a" is one ordinary character and "B" is a block of ordinary text with  *)
(* no whitespace and no full stop in it (BlockTokens tokens long).         *)
(***************************************************************************)
EXTENDS Integers, Sequences, FiniteSets, TLC

VARIABLES
    pc,             \* "idle", "await_single", "await_chunk", "done"
    op,             \* the method of AIProcessor the caller invoked
    model,          \* AIProcessor.model
    content,        \* the text being processed
    output_format,  \* the output_format argument
    chunk_size,     \* the chunk_size local of the running method (None: NoneVal)
    chunk_size_arg, \* the chunk_size argument the caller passed (None: NoneVal)
    task,           \* the task argument
    max_tokens,     \* the max_tokens argument
    chunk_results,  \* the list of chunk results handed to the merger
    chunks,         \* the list _split_content_into_chunks returned
    chunk_num,      \* the chunk_num argument of _process_chunk_with_context
    requests,       \* the completion calls issued so far, oldest first
    responses,      \* the response texts the service returned, oldest first
    split_calls,    \* how many times _split_content_into_chunks was invoked
    merge_calls,    \* how many times _combine_chunk_results was invoked
    outcome,        \* what the invoked method gave its caller
    cancel_requested, \* the caller has asked for the run to be cancelled
    document,       \* the UnifiedDocument the invoked method was given or built
    call,           \* the arguments of the calls made on the document layer
    registry,       \* _registry.parsers
    loaded_eps,     \* _loaded_eps
    parsers_imported, \* the parsers package is in sys.modules
    load_runs,      \* how many times _load_entrypoint_parsers ran
    entry_points    \* the entry points of the group panparsex.parsers, once read

\* the state of an AIProcessor call
aiVars == <<pc, op, model, content, output_format, chunk_size, chunks,
            chunk_num, requests, responses, split_calls, merge_calls, outcome,
            chunk_size_arg, task, max_tokens, chunk_results>>

\* the state no method of AIProcessor reads or writes
aside == <<cancel_requested, document, call, registry, loaded_eps,
           parsers_imported, load_runs, entry_points>>

\* the globals of core.py and what they were loaded from
coreVars == <<registry, loaded_eps, parsers_imported, load_runs, entry_points>>

vars == <<aiVars, aside>>

\* the arguments only process_document and _process_with_chunking take
callArgs == <<chunk_size_arg, task, max_tokens>>

----------------------------------------------------------------------------
(* Bounds of the model *)

\* the longest chunker input, in atoms (see Atoms)
MaxAtoms == 4
\* the largest chunk_size a caller passes to the chunker
MaxBudget == 4
\* the tokens of one "B" block of text
BlockTokens == 3000

NoneVal == -999999

----------------------------------------------------------------------------
(* Strings *)

NL == "\n"
Marker == "--- Section"
Whitespace == {" ", NL}

\* the delimiters the chunker uses
SectionSep == <<NL, Marker>>
ParaSep == <<NL, NL>>
SentSep == <<".", " ">>

\* s[i..] starts with sep
StartsWithAt(s, sep, i) ==
    /\ i + Len(sep) - 1 <= Len(s)
    /\ \A k \in 1..Len(sep) : s[i + k - 1] = sep[k]

RECURSIVE SplitFrom(_, _, _, _)
SplitFrom(s, sep, i, cur) ==
    IF i > Len(s) THEN <<cur>>
    ELSE IF StartsWithAt(s, sep, i)
         THEN <<cur>> \o SplitFrom(s, sep, i + Len(sep), <<>>)
         ELSE SplitFrom(s, sep, i + 1, Append(cur, s[i]))

\* str.split(sep): the parts between the non-overlapping occurrences of sep,
\* found left to right; always at least one part
StrSplit(s, sep) == SplitFrom(s, sep, 1, <<>>)

RECURSIVE LStrip(_)
LStrip(s) ==
    IF s = <<>> THEN s
    ELSE IF Head(s) \in Whitespace THEN LStrip(Tail(s)) ELSE s

RECURSIVE RStrip(_)
RStrip(s) ==
    IF s = <<>> THEN s
    ELSE IF s[Len(s)] \in Whitespace THEN RStrip(SubSeq(s, 1, Len(s) - 1)) ELSE s

\* str.strip()
Strip(s) == RStrip(LStrip(s))

\* the tokens of the passage "P"
PassageTokens == 599

\* the tokens of one symbol
SymbolTokens(c) ==
    IF c = "B" THEN BlockTokens ELSE IF c = "P" THEN PassageTokens ELSE 1

RECURSIVE TokenCount(_)
\* len(self.tokenizer.encode(s))
TokenCount(s) ==
    IF s = <<>> THEN 0 ELSE SymbolTokens(Head(s)) + TokenCount(Tail(s))

----------------------------------------------------------------------------
(* _split_content_into_chunks.  acc is the pair of locals                  *)
(* [chunks, current_chunk] the three nested loops update.                  *)

\* the sentence loop dropping a sentence that is over the size on its own
SentStep_DropsOversized(acc, sent, size) ==
    IF TokenCount(acc.current_chunk \o SentSep \o sent) > size
    THEN IF acc.current_chunk # <<>>
         THEN [chunks |-> Append(acc.chunks, Strip(acc.current_chunk)),
               current_chunk |-> sent]
         ELSE acc
    ELSE [chunks |-> acc.chunks,
          current_chunk |-> IF acc.current_chunk # <<>>
                            THEN acc.current_chunk \o SentSep \o sent
                            ELSE sent]

\* one iteration of the sentence loop
SentStep(acc, sent, size) ==
    IF TokenCount(acc.current_chunk \o SentSep \o sent) > size
    THEN IF acc.current_chunk # <<>>
         THEN [chunks |-> Append(acc.chunks, Strip(acc.current_chunk)),
               current_chunk |-> sent]
         ELSE [chunks |-> Append(acc.chunks, sent),
               current_chunk |-> acc.current_chunk]
    ELSE [chunks |-> acc.chunks,
          current_chunk |-> IF acc.current_chunk # <<>>
                            THEN acc.current_chunk \o SentSep \o sent
                            ELSE sent]

RECURSIVE SentLoop(_, _, _)
SentLoop(acc, sentences, size) ==
    IF sentences = <<>> THEN acc
    ELSE SentLoop(SentStep(acc, Head(sentences), size), Tail(sentences), size)

\* one iteration of the paragraph loop
ParaStep(acc, para, size) ==
    IF TokenCount(acc.current_chunk \o ParaSep \o para) > size
    THEN IF acc.current_chunk # <<>>
         THEN [chunks |-> Append(acc.chunks, Strip(acc.current_chunk)),
               current_chunk |-> para]
         ELSE SentLoop(acc, StrSplit(para, SentSep), size)
    ELSE [chunks |-> acc.chunks,
          current_chunk |-> IF acc.current_chunk # <<>>
                            THEN acc.current_chunk \o ParaSep \o para
                            ELSE para]

RECURSIVE ParaLoop(_, _, _)
ParaLoop(acc, paragraphs, size) ==
    IF paragraphs = <<>> THEN acc
    ELSE ParaLoop(ParaStep(acc, Head(paragraphs), size), Tail(paragraphs), size)

\* the section loop adding every section to the current chunk
SectionStep_NeverCloses(acc, section, size) ==
    [chunks |-> acc.chunks,
     current_chunk |-> IF acc.current_chunk # <<>>
                       THEN acc.current_chunk \o ParaSep \o section
                       ELSE section]

\* one iteration of the section loop; section has its header restored
SectionStep(acc, section, size) ==
    IF TokenCount(section) > size
    THEN ParaLoop(acc, StrSplit(section, ParaSep), size)
    ELSE IF TokenCount(acc.current_chunk \o ParaSep \o section) > size
         THEN IF acc.current_chunk # <<>>
              THEN [chunks |-> Append(acc.chunks, Strip(acc.current_chunk)),
                    current_chunk |-> section]
              ELSE [chunks |-> Append(acc.chunks, section),
                    current_chunk |-> acc.current_chunk]
         ELSE [chunks |-> acc.chunks,
               current_chunk |-> IF acc.current_chunk # <<>>
                                 THEN acc.current_chunk \o ParaSep \o section
                                 ELSE section]

RECURSIVE SectionLoop(_, _, _, _)
SectionLoop(acc, sections, i, size) ==
    IF i > Len(sections) THEN acc
    ELSE SectionLoop(
             SectionStep(acc,
                         IF i > 1 THEN <<Marker>> \o sections[i] ELSE sections[i],
                         size),
             sections, i + 1, size)

\* the chunker flushing the current chunk even when it is empty
SplitContentIntoChunks_AlwaysFlushes(text, size) ==
    LET acc == SectionLoop([chunks |-> <<>>, current_chunk |-> <<>>],
                           StrSplit(text, SectionSep), 1, size)
    IN  Append(acc.chunks, Strip(acc.current_chunk))

SplitContentIntoChunks(text, size) ==
    LET acc == SectionLoop([chunks |-> <<>>, current_chunk |-> <<>>],
                           StrSplit(text, SectionSep), 1, size)
    IN  IF acc.current_chunk # <<>>
        THEN Append(acc.chunks, Strip(acc.current_chunk))
        ELSE acc.chunks

----------------------------------------------------------------------------
(* Models, limits and prompts *)

Models == {"gpt-4o-mini", "gpt-4o", "gpt-4", "gpt-3.5-turbo", "gpt-3.5-turbo-16k"}

\* self.model_limits.get(model, 128000)
ModelLimit(m) ==
    CASE m = "gpt-4o-mini" -> 128000
      [] m = "gpt-4o" -> 128000
      [] m = "gpt-4" -> 8192
      [] m = "gpt-3.5-turbo" -> 16384
      [] m = "gpt-3.5-turbo-16k" -> 16384
      [] OTHER -> 128000

\* self.max_input_tokens = int(limit * 0.8)
MaxInputTokens(m) == (ModelLimit(m) * 8) \div 10

\* the tokens of the system prompt's fixed text
TemplateTokens == 330
\* context_tokens: "Reserve for context and response"
ContextTokens == 1000

\* the task texts a caller passes: a short one and a very long one
Tasks == {<<"a">>, <<"B", "B", "B">>}

\* len(self.tokenizer.encode(self._create_system_prompt(task, output_format)))
SystemPromptTokens(tk) == TemplateTokens + TokenCount(tk)

\* the max_tokens arguments a caller passes: the reserve the code uses, and
\* the default of process_document
MaxTokensArgs == {ContextTokens, 4000}

OutputFormats == {"structured_json", "markdown"}

----------------------------------------------------------------------------
(* Documents and their serialization *)

MaxSections == 3
ChunkTexts == {<<"a">>, <<"B">>}

\* None, and the empty string: both are false in an if
NoText == <<>>

\* a Chunk: its text and the image ids in associated_images
PlainChunk(t) == [text |-> t, associated_images |-> <<>>]

\* a Section without a heading and without images
PlainSection(chunk_texts) ==
    [heading |-> NoText, images |-> <<>>,
     chunks |-> [j \in 1..Len(chunk_texts) |-> PlainChunk(chunk_texts[j])]]

\* a UnifiedDocument with a source and the default content type, without a
\* title and without images
PlainDoc(secs) ==
    [title |-> NoText, source |-> <<"src">>, content_type |-> <<"text/plain">>,
     images |-> <<>>,
     sections |-> [i \in 1..Len(secs) |-> PlainSection(secs[i])]]

\* the documents process_document is given: up to MaxSections sections of one
\* chunk each
Docs ==
    {PlainDoc(f) :
         f \in UNION {[1..n -> {<<t>> : t \in ChunkTexts}] : n \in 0..MaxSections}}

RECURSIVE Join(_, _)
\* sep.join(parts)
Join(parts, sep) ==
    IF parts = <<>> THEN <<>>
    ELSE IF Len(parts) = 1 THEN parts[1]
    ELSE parts[1] \o sep \o Join(Tail(parts), sep)

\* img_info of one image of doc.images; dimensions is NoDimensions for None
NoDimensions == [width |-> -1, height |-> -1]
ImageInfo(img) ==
    <<"-", " ", "Image", " ", img.image_id, " ", "on", " ", "page", " ",
      ToString(img.page_number)>>
    \o (IF img.dimensions # NoDimensions
        THEN <<" ", "(", ToString(img.dimensions.width), "x",
               ToString(img.dimensions.height), ")">>
        ELSE <<>>)
    \o (IF img.associated_text # NoText
        THEN <<" ", "-", " ", "Associated", " ", "text:", " ">>
             \o SubSeq(img.associated_text, 1,
                       IF Len(img.associated_text) < 100
                       THEN Len(img.associated_text) ELSE 100)
             \o <<"...">>
        ELSE <<>>)

\* the parts the image summary appends to content_parts
ImageParts(doc) ==
    IF doc.images # <<>>
    THEN << <<NL, "Document", " ", "contains", " ",
              ToString(Len(doc.images)), " ", "images:">> >>
         \o [k \in 1..Len(doc.images) |-> ImageInfo(doc.images[k])]
    ELSE <<>>

\* the parts the metadata appends to content_parts
MetaParts(doc) ==
    (IF doc.title # NoText THEN << <<"Title:", " ">> \o doc.title >> ELSE <<>>)
    \o (IF doc.source # NoText
        THEN << <<"Source:", " ">> \o doc.source >> ELSE <<>>)
    \o (IF doc.content_type # NoText
        THEN << <<"Content", " ", "Type:", " ">> \o doc.content_type >>
        ELSE <<>>)

RECURSIVE SectionImageLines(_, _)
\* the "\n  - {img.image_id}: {text}" lines of a section's images from the
\* k-th on
SectionImageLines(images, k) ==
    IF k > Len(images) THEN <<>>
    ELSE <<NL, " ", " ", "-", " ", images[k].image_id, ":", " ">>
         \o (IF images[k].associated_text # NoText
             THEN images[k].associated_text
             ELSE <<"No associated text">>)
         \o SectionImageLines(images, k + 1)

RECURSIVE ChunkLines(_, _)
\* the "\nChunk {j+1}: {chunk.text}" lines of the chunks from the j-th on
ChunkLines(section_chunks, j) ==
    IF j > Len(section_chunks) THEN <<>>
    ELSE <<NL, "Chunk", " ", ToString(j), ":", " ">> \o section_chunks[j].text
         \o (IF section_chunks[j].associated_images # <<>>
             THEN <<NL, " ", " ", "Associated", " ", "images:", " ">>
                  \o Join([k \in 1..Len(section_chunks[j].associated_images) |->
                               <<section_chunks[j].associated_images[k]>>],
                          <<",", " ">>)
             ELSE <<>>)
         \o ChunkLines(section_chunks, j + 1)

\* section_text of the i-th section (i counted from 1)
SectionText(doc, i) ==
    <<NL, Marker, " ", ToString(i), " ", "---">>
    \o (IF doc.sections[i].heading # NoText
        THEN <<NL, "Heading:", " ">> \o doc.sections[i].heading
        ELSE <<>>)
    \o (IF doc.sections[i].images # <<>>
        THEN <<NL, "Images", " ", "in", " ", "this", " ", "section:", " ",
               ToString(Len(doc.sections[i].images))>>
             \o SectionImageLines(doc.sections[i].images, 1)
        ELSE <<>>)
    \o ChunkLines(doc.sections[i].chunks, 1)

\* the document serialized with its sections last to first
PrepareContentForAI_SectionsReversed(doc) ==
    Join(MetaParts(doc) \o ImageParts(doc)
         \o [i \in 1..Len(doc.sections) |->
                 SectionText(doc, Len(doc.sections) + 1 - i)],
         <<NL>>)

\* _prepare_content_for_ai
PrepareContentForAI(doc) ==
    Join(MetaParts(doc) \o ImageParts(doc)
         \o [i \in 1..Len(doc.sections) |-> SectionText(doc, i)],
         <<NL>>)

----------------------------------------------------------------------------
(* Documents: types.py and parsers/pdf.py *)

\* no method of the document layer was invoked
NoCall == [method |-> "none"]

\* add_image appending to the section only
AddImage_SectionOnly(doc, image, section_index) ==
    IF section_index # NoneVal /\ 0 <= section_index
       /\ section_index < Len(doc.sections)
    THEN [doc EXCEPT !.sections[section_index + 1].images = Append(@, image)]
    ELSE [doc EXCEPT !.images = Append(@, image)]

\* UnifiedDocument.add_image; section_index is NoneVal for None
AddImage(doc, image, section_index) ==
    [doc EXCEPT
         !.images = Append(@, image),
         !.sections =
             IF section_index # NoneVal /\ 0 <= section_index
                /\ section_index < Len(doc.sections)
             THEN [@ EXCEPT ![section_index + 1].images = Append(@, image)]
             ELSE @]

\* UnifiedDocument.get_images_by_section
GetImagesBySection(doc, section_index) ==
    IF 0 <= section_index /\ section_index < Len(doc.sections)
    THEN doc.sections[section_index + 1].images
    ELSE <<>>

RECURSIVE AddImages(_, _, _, _)
\* for img in images: doc.add_image(img, section_index), from the k-th on
AddImages(doc, images, section_index, k) ==
    IF k > Len(images) THEN doc
    ELSE AddImages(AddImage(doc, images[k], section_index),
                   images, section_index, k + 1)

\* the section PDFParser.parse makes of the i-th page (i counted from 1);
\* the model constructor copies the list page_images into the section
PageSection(i, page_text, page_images) ==
    [heading |-> <<"Page", " ", ToString(i)>>,
     images |-> page_images,
     chunks |-> <<PlainChunk(Strip(page_text))>>]

\* one turn of the page loop of PDFParser.parse, for the i-th page
PageStep(acc, i, page_text, all_images) ==
    LET page_images == SelectSeq(all_images, LAMBDA img : img.page_number = i)
    IN IF Strip(page_text) # <<>> \/ page_images # <<>>
       THEN [doc |-> AddImages([acc.doc EXCEPT
                                    !.sections =
                                        Append(@, PageSection(i, page_text,
                                                              page_images))],
                               page_images, Len(acc.doc.sections), 1),
             text |-> acc.text \o page_text \o <<NL>>]
       ELSE acc

RECURSIVE PageLoop(_, _, _, _)
\* the page loop of PDFParser.parse from the i-th page on
PageLoop(acc, pages, i, all_images) ==
    IF i > Len(pages) THEN acc
    ELSE PageLoop(PageStep(acc, i, pages[i], all_images),
                  pages, i + 1, all_images)

\* the pdfminer fallback of PDFParser.parse, taken when text is empty
PdfminerFallback(acc, c) ==
    IF c.pdfminer = "fails" \/ c.pdfminer_text = NoText THEN acc
    ELSE [doc |-> AddImages(
                      [acc.doc EXCEPT
                           !.sections =
                               Append(@, [heading |-> <<"Document Content">>,
                                          images |-> <<>>,
                                          chunks |-> <<PlainChunk(
                                                       Strip(c.pdfminer_text))>>])],
                      IF c.extraction = "on" THEN c.extracted ELSE <<>>,
                      NoneVal, 1),
          text |-> c.pdfminer_text]

\* the error section of PDFParser.parse, added when text is still empty
ErrorSection(acc) ==
    IF acc.text # NoText THEN acc
    ELSE [doc |-> [acc.doc EXCEPT
                       !.sections =
                           Append(@, [heading |-> <<"Error">>, images |-> <<>>,
                                      chunks |-> <<PlainChunk(
                                                   <<"[panparsex:pdf] unable to extract text">>)>>])],
          text |-> <<"[panparsex:pdf] unable to extract text">>]

\* PDFParser.parse.  c.extraction is "off" (extract_images false, or the
\* extractor could not be made), "on", or "fails" (extract_images_from_pdf
\* raises); c.pypdf is "ok" or "fails" (the reader cannot be made)
PdfParseDocument(c) ==
    LET start == [doc |-> [PlainDoc(<<>>) EXCEPT
                               !.source = <<"test.pdf">>,
                               !.content_type = <<"application/pdf">>],
                  text |-> NoText]
        all_images == IF c.extraction = "on" THEN c.extracted ELSE <<>>
        paged == IF c.pypdf = "ok"
                 THEN PageLoop(start, c.pages, 1, all_images)
                 ELSE start
        fallen == IF paged.text = NoText
                  THEN PdfminerFallback(paged, c) ELSE paged
    IN ErrorSection(fallen).doc

----------------------------------------------------------------------------
(* core.py: the parser registry, parse and parse_folder.  A target or a    *)
(* file is a record [scheme, name, suffix, exists, corrupt, hidden]; st is  *)
(* the record of the module globals [registry, loaded_eps,                  *)
(* parsers_imported, load_runs, entry_points].                              *)

NoType == "None"
NoPath == [name |-> -1, suffix |-> ""]

\* str(target).startswith(('http://', 'https://'))
IsUrl(target) == target.scheme \in {"http://", "https://"}

\* mimetypes.guess_type(p.name)[0]
GuessType(suffix) ==
    CASE suffix = ".pdf" -> "application/pdf"
      [] suffix = ".txt" -> "text/plain"
      [] suffix = ".py" -> "text/x-python"
      [] OTHER -> NoType

\* _guess_meta(target, content_type=content_type, url=None)
GuessMeta(target, content_type) ==
    LET guessed == IF content_type # NoType THEN content_type
                   ELSE IF IsUrl(target) THEN "text/html"
                   ELSE GuessType(target.suffix)
        ctype == IF guessed # NoType THEN guessed ELSE "application/octet-stream"
    IN IF IsUrl(target)
       THEN [source |-> target.name, content_type |-> ctype, path |-> NoPath,
             url |-> target.name]
       ELSE [source |-> target.name, content_type |-> ctype,
             path |-> IF target.exists
                      THEN [name |-> target.name, suffix |-> target.suffix]
                      ELSE NoPath,
             url |-> -1]

\* PDFParser(), registered when parsers/pdf.py is imported
PDFParser ==
    [name |-> "pdf", origin |-> "builtin", extensions |-> {".pdf"},
     can_parse |-> "by_meta"]

\* the parser named 'text'
TextParser ==
    [name |-> "text", origin |-> "builtin", extensions |-> {".txt"},
     can_parse |-> "by_meta"]

\* the parsers the import of the parsers package registers, in order
BuiltinParsers == <<TextParser, PDFParser>>

\* parser = maker() of an entry point that loads
PluginParser(ep) ==
    [name |-> ep.name, origin |-> "entry_point", extensions |-> {".foo"},
     can_parse |-> ep.can_parse]

\* PDFParser.can_parse
PdfCanParse(meta) ==
    meta.content_type = "application/pdf" \/ meta.path.suffix = ".pdf"

\* can_parse of the parser named 'text'
TextCanParse(meta) == meta.content_type = "text/plain"

\* p.can_parse(meta): "true", "false" or "raises"
CanParse(p, meta) ==
    IF p.origin = "entry_point" THEN p.can_parse
    ELSE IF p.name = "pdf"
    THEN IF PdfCanParse(meta) THEN "true" ELSE "false"
    ELSE IF TextCanParse(meta) THEN "true" ELSE "false"

RECURSIVE LoadEntrypointParsers(_, _)
\* _load_entrypoint_parsers: the registry after the loop over the entry points
LoadEntrypointParsers(parsers, eps) ==
    IF eps = <<>> THEN parsers
    ELSE LoadEntrypointParsers(
             IF Head(eps).load = "ok"
             THEN Append(parsers, PluginParser(Head(eps)))
             ELSE parsers,
             Tail(eps))

\* from . import parsers: the package is executed on its first import only
ImportParsers(st) ==
    IF st.parsers_imported THEN st
    ELSE [st EXCEPT !.registry = @ \o BuiltinParsers,
                    !.parsers_imported = TRUE]

\* _ensure_parsers_loaded never setting the flag
EnsureParsersLoaded_FlagNeverSet(st, eps) ==
    ImportParsers([st EXCEPT !.registry = LoadEntrypointParsers(@, eps),
                             !.load_runs = @ + 1,
                             !.entry_points = [read |-> TRUE, eps |-> eps]])

\* _ensure_parsers_loaded; eps are the entry points installed in the process
EnsureParsersLoaded(st, eps) ==
    ImportParsers(
        IF ~st.loaded_eps
        THEN [st EXCEPT !.registry = LoadEntrypointParsers(@, eps),
                        !.loaded_eps = TRUE,
                        !.load_runs = @ + 1,
                        !.entry_points = [read |-> TRUE, eps |-> eps]]
        ELSE st)

RECURSIVE SelectFrom_TakesRaising(_, _, _, _)
\* the selection loop taking a parser whose can_parse raises
SelectFrom_TakesRaising(parsers, meta, i, consulted) ==
    IF i > Len(parsers) THEN [best |-> 0, consulted |-> consulted]
    ELSE IF CanParse(parsers[i], meta) = "false"
         THEN SelectFrom_TakesRaising(parsers, meta, i + 1, Append(consulted, i))
         ELSE [best |-> i, consulted |-> Append(consulted, i)]

RECURSIVE SelectFrom(_, _, _, _)
\* for p in _registry.parsers: the position of the first parser whose
\* can_parse is true (0: none), and the positions consulted
SelectFrom(parsers, meta, i, consulted) ==
    IF i > Len(parsers) THEN [best |-> 0, consulted |-> consulted]
    ELSE IF CanParse(parsers[i], meta) = "true"
         THEN [best |-> i, consulted |-> Append(consulted, i)]
         ELSE SelectFrom(parsers, meta, i + 1, Append(consulted, i))

\* the position of the first parser named 'text' (0: none)
TextFallback(parsers) ==
    LET named == {i \in 1..Len(parsers) : parsers[i].name = "text"}
    IN IF named = {} THEN 0
       ELSE CHOOSE i \in named : \A k \in named : i <= k

NoDoc == [source |-> -1, content_type |-> NoType, parser |-> "none"]

\* best.parse(target, meta): PDFParser.parse catches what its readers raise;
\* another parser raises on a file it cannot read
ParserParse(p, target, meta) ==
    IF target.corrupt /\ ~(p.origin = "builtin" /\ p.name = "pdf")
    THEN [error |-> "ParseError", doc |-> NoDoc]
    ELSE [error |-> "",
          doc |-> [source |-> meta.source, content_type |-> meta.content_type,
                   parser |-> p.name]]

\* parse(target, content_type=content_type)
ParseResult(st, eps, target, content_type) ==
    LET loaded == EnsureParsersLoaded(st, eps)
        meta == GuessMeta(target, content_type)
        sel == SelectFrom(loaded.registry, meta, 1, <<>>)
        best == IF sel.best # 0 THEN sel.best ELSE TextFallback(loaded.registry)
    IN IF ~IsUrl(target) /\ ~target.exists
       THEN [st |-> loaded, error |-> "FileNotFoundError", consulted |-> <<>>,
             dispatched |-> <<>>, doc |-> NoDoc]
       ELSE IF best = 0
       THEN [st |-> loaded, error |-> "RuntimeError",
             consulted |-> sel.consulted, dispatched |-> <<>>, doc |-> NoDoc]
       ELSE LET parsed == ParserParse(loaded.registry[best], target, meta)
            IN [st |-> loaded, error |-> parsed.error,
                consulted |-> sel.consulted, dispatched |-> <<best>>,
                doc |-> parsed.doc]

----------------------------------------------------------------------------
(* The completion service's responses and their parsing *)

\* the character cap of a truncated rolling context: [:500] and "..."
ContextSlice == 500
Ellipsis == <<".", ".", ".">>

\* a text of n characters
TextOfLen(n) == [i \in 1..n |-> "x"]

\* an "images_analysis" object: keys are the keys it holds, total_images and
\* image_contexts the values under those keys
NoImages == [keys |-> {}, total_images |-> 0, image_contexts |-> <<>>]

\* the values under the list and object keys of a JSON object; a dict
\* ("structured_content") is the sequence of its <<key, value>> items in
\* insertion order, a key being the sequence of its characters
EmptyFields ==
    [key_topics |-> <<>>, important_points |-> <<>>, insights |-> <<>>,
     recommendations |-> <<>>, structured_content |-> <<>>,
     images_analysis |-> NoImages]

\* a response text: text is the text itself, json what json.loads makes of it
\* ("object", "nonobject": valid JSON that is no object, "malformed"), keys
\* the keys of the object, summary the text under its "summary" key and
\* fields the values under its other keys
Responses ==
    {[json |-> "object", keys |-> {"summary", "key_topics"},
      summary |-> <<"s">>, text |-> <<"{summary, key_topics}">>,
      fields |-> [EmptyFields EXCEPT !.key_topics = <<"a", "b">>]],
     [json |-> "object", keys |-> {"summary"},
      summary |-> TextOfLen(ContextSlice + Len(Ellipsis) + 1),
      text |-> <<"{long summary}">>, fields |-> EmptyFields],
     [json |-> "object", keys |-> {"insights"},
      summary |-> <<>>, text |-> <<"{insights}">>,
      fields |-> [EmptyFields EXCEPT !.insights = <<"a">>]],
     [json |-> "nonobject", keys |-> {},
      summary |-> <<>>, text |-> <<"[1, 2]">>, fields |-> EmptyFields],
     [json |-> "malformed", keys |-> {},
      summary |-> <<>>, text |-> <<"Sorry, ">>, fields |-> EmptyFields],
     [json |-> "object",
      keys |-> {"summary", "key_topics", "important_points",
                "structured_content", "images_analysis", "insights",
                "recommendations"},
      summary |-> <<"t">>, text |-> <<"{all keys}">>,
      fields |-> [key_topics |-> <<"b", "c">>,
                  important_points |-> <<"a", "a">>,
                  insights |-> <<"a", "b">>,
                  recommendations |-> <<"c">>,
                  structured_content |->
                      << << <<"k">>, "v1" >>, << <<"1", "_", "k">>, "v2" >> >>,
                  images_analysis |->
                      [keys |-> {"total_images", "images_by_page",
                                 "image_contexts"},
                       total_images |-> 2,
                       image_contexts |-> <<"c1", "c2">>]]],
     [json |-> "object",
      keys |-> {"key_topics", "structured_content", "images_analysis"},
      summary |-> <<>>, text |-> <<"{no counter}">>,
      fields |-> [EmptyFields EXCEPT
                      !.structured_content =
                          << << <<"k">>, "v3" >>, << <<"_", "k">>, "v4" >> >>,
                      !.images_analysis =
                          [keys |-> {"image_contexts"}, total_images |-> 0,
                           image_contexts |-> <<"c2", "c3">>]]],
     [json |-> "object",
      keys |-> {"important_points", "recommendations", "structured_content",
                "images_analysis"},
      summary |-> <<>>, text |-> <<"{no contexts}">>,
      fields |-> [EmptyFields EXCEPT
                      !.important_points = <<"b", "a">>,
                      !.recommendations = <<"c", "d">>,
                      !.images_analysis =
                          [keys |-> {"total_images"}, total_images |-> 3,
                           image_contexts |-> <<>>]]],
     [json |-> "object", keys |-> {},
      summary |-> <<>>, text |-> <<"{}">>, fields |-> EmptyFields],
     [json |-> "object", keys |-> {"images_analysis"},
      summary |-> <<>>, text |-> <<"{images_analysis}">>,
      fields |-> [EmptyFields EXCEPT
                      !.images_analysis =
                          [keys |-> {"total_images", "image_contexts"},
                           total_images |-> 1,
                           image_contexts |-> <<"c1", "c1">>]]]}

\* what the responses list records for a completion call that raised
ServiceFailure ==
    [json |-> "raised", keys |-> {}, summary |-> <<>>, text |-> <<>>,
     fields |-> EmptyFields]

\* a "processing_info" object
NoInfo == [keys |-> {}, total_chunks |-> 0, task |-> <<>>]

\* a Python value a method returns: t is its type ("dict", "nondict", "list"),
\* keys the keys of a dict, and summary, raw_response, content, format,
\* chunk_number and processing_info the values under those keys, fields the
\* values under the list and object keys
NoValue ==
    [t |-> "none", keys |-> {}, summary |-> <<>>, raw_response |-> <<>>,
     content |-> <<>>, format |-> "", chunk_number |-> 0,
     fields |-> EmptyFields, processing_info |-> NoInfo]

\* json.loads(result) for a text that parses
JsonLoads(r) ==
    IF r.json = "object"
    THEN [NoValue EXCEPT !.t = "dict", !.keys = r.keys, !.summary = r.summary,
                         !.fields = r.fields]
    ELSE [NoValue EXCEPT !.t = "nondict", !.raw_response = r.text]

Returned(v) == [kind |-> "returned", error |-> "", value |-> v]
Raised(e) == [kind |-> "raised", error |-> e, value |-> NoValue]
NoOutcome == [kind |-> "none", error |-> "", value |-> NoValue]

\* {"raw_response": result, "format": "text"}
RawFallback(r) ==
    [NoValue EXCEPT !.t = "dict", !.keys = {"raw_response", "format"},
                    !.raw_response = r.text, !.format = "text"]

\* _process_single_chunk, from the response on
ParseSingle(fmt, r) ==
    IF fmt = "structured_json"
    THEN IF r.json = "malformed"
         THEN Returned(RawFallback(r))
         ELSE Returned(JsonLoads(r))
    ELSE Returned([NoValue EXCEPT !.t = "dict", !.keys = {"content", "format"},
                                  !.content = r.text, !.format = fmt])

\* parsed_result["chunk_number"] = chunk_num: only a dict takes the key
TagChunkNumber(v, num) ==
    IF v.t = "dict"
    THEN Returned([v EXCEPT !.keys = @ \cup {"chunk_number"},
                            !.chunk_number = num])
    ELSE Raised("TypeError")

\* _process_chunk_with_context, from the response on
ParseChunk(fmt, r, num) ==
    IF fmt = "structured_json"
    THEN IF r.json = "malformed"
         THEN Returned([RawFallback(r) EXCEPT
                            !.keys = @ \cup {"chunk_number"},
                            !.chunk_number = num])
         ELSE TagChunkNumber(JsonLoads(r), num)
    ELSE Returned([NoValue EXCEPT
                       !.t = "dict",
                       !.keys = {"content", "format", "chunk_number"},
                       !.content = r.text, !.format = fmt, !.chunk_number = num])

\* str(chunk_result) of a dict: braces around its entries (the key names and
\* the punctuation between the entries are left out, the texts are whole)
PyStr(v) == <<"{">> \o v.summary \o v.raw_response \o v.content \o <<"}">>

\* s[:500] + "..." if len(s) > 500 else s
Truncate(s) ==
    IF Len(s) > ContextSlice THEN SubSeq(s, 1, ContextSlice) \o Ellipsis ELSE s

\* the context_summary the loop of _process_with_chunking derives from a
\* chunk result
UpdateContextSummary(fmt, v) ==
    IF fmt = "structured_json" /\ v.t = "dict" /\ "summary" \in v.keys
    THEN v.summary
    ELSE IF v.t = "dict" /\ "content" \in v.keys
         THEN Truncate(v.content)
         ELSE Truncate(PyStr(v))

\* the context_prompt of the i-th chunk (i counted from 0)
ContextPrompt(i, context_summary) ==
    IF i = 0 THEN <<>>
    ELSE <<"Previous context summary: ">> \o context_summary \o <<NL, NL>>

----------------------------------------------------------------------------
(* The merger *)

\* str(n) for a natural number n: its decimal digits
RECURSIVE Digits(_)
Digits(n) ==
    LET digit == <<"0", "1", "2", "3", "4", "5", "6", "7", "8", "9">>[(n % 10) + 1]
    IN IF n < 10 THEN <<digit>> ELSE Digits(n \div 10) \o <<digit>>

\* the key with nothing between the piece number and the piece's own key
NamespacedKey_NoSeparator(num, key) == <<"chunk_">> \o Digits(num) \o key

\* f"chunk_{i+1}_{key}", num being i + 1
NamespacedKey(num, key) == <<"chunk_">> \o Digits(num) \o <<"_">> \o key

\* d[key] = value on a dict d
DictSet(d, key, value) ==
    IF \E j \in 1..Len(d) : d[j][1] = key
    THEN [j \in 1..Len(d) |-> IF d[j][1] = key THEN <<key, value>> ELSE d[j]]
    ELSE Append(d, <<key, value>>)

RECURSIVE AddNamespaced(_, _, _, _)
\* structured_content after the items of a piece's dict from the j-th on
AddNamespaced(structured_content, items, num, j) ==
    IF j > Len(items) THEN structured_content
    ELSE AddNamespaced(DictSet(structured_content,
                               NamespacedKey(num, items[j][1]), items[j][2]),
                       items, num, j + 1)

\* the list kept as it was extended, duplicates included
ListOfSet_KeepAll(xs) == xs

RECURSIVE ListOfSet(_)
\* list(set(xs)): each distinct entry once; the order of the list is not
\* determined by the code, the order of first occurrence stands for it
ListOfSet(xs) ==
    IF xs = <<>> THEN <<>>
    ELSE LET rest == ListOfSet(SubSeq(xs, 1, Len(xs) - 1))
             last == xs[Len(xs)]
         IN IF \E j \in 1..Len(rest) : rest[j] = last
            THEN rest ELSE Append(rest, last)

\* the accumulators of _combine_json_results before its loop
CombineStart ==
    [summaries |-> <<>>, all_key_topics |-> <<>>,
     all_important_points |-> <<>>, all_insights |-> <<>>,
     all_recommendations |-> <<>>, structured_content |-> <<>>,
     images_analysis |->
         [keys |-> {"total_images", "images_by_page", "image_contexts"},
          total_images |-> 0, image_contexts |-> <<>>]]

\* the counter read as 1 for every piece that has one
GetTotalImages_Presence(img_analysis) ==
    IF "total_images" \in img_analysis.keys THEN 1 ELSE 0

\* img_analysis.get("total_images", 0)
GetTotalImages(img_analysis) ==
    IF "total_images" \in img_analysis.keys
    THEN img_analysis.total_images ELSE 0

\* img_analysis.get("image_contexts", [])
GetImageContexts(img_analysis) ==
    IF "image_contexts" \in img_analysis.keys
    THEN img_analysis.image_contexts ELSE <<>>

\* one turn of the loop of _combine_json_results, for the num-th result
CombineStep(acc, result, num) ==
    IF result.t # "dict" THEN acc
    ELSE [summaries |->
              IF "summary" \in result.keys
              THEN Append(acc.summaries,
                          <<"Chunk", " ", ToString(num), ":", " ">>
                          \o result.summary)
              ELSE acc.summaries,
          all_key_topics |->
              IF "key_topics" \in result.keys
              THEN acc.all_key_topics \o result.fields.key_topics
              ELSE acc.all_key_topics,
          all_important_points |->
              IF "important_points" \in result.keys
              THEN acc.all_important_points \o result.fields.important_points
              ELSE acc.all_important_points,
          all_insights |->
              IF "insights" \in result.keys
              THEN acc.all_insights \o result.fields.insights
              ELSE acc.all_insights,
          all_recommendations |->
              IF "recommendations" \in result.keys
              THEN acc.all_recommendations \o result.fields.recommendations
              ELSE acc.all_recommendations,
          structured_content |->
              IF "structured_content" \in result.keys
              THEN AddNamespaced(acc.structured_content,
                                 result.fields.structured_content, num, 1)
              ELSE acc.structured_content,
          images_analysis |->
              IF "images_analysis" \in result.keys
              THEN [acc.images_analysis EXCEPT
                        !.total_images =
                            @ + GetTotalImages(result.fields.images_analysis),
                        !.image_contexts =
                            @ \o GetImageContexts(result.fields.images_analysis)]
              ELSE acc.images_analysis]

RECURSIVE CombineLoop(_, _, _)
\* the loop of _combine_json_results from the num-th result on
CombineLoop(acc, results, num) ==
    IF num > Len(results) THEN acc
    ELSE CombineLoop(CombineStep(acc, results[num], num),
                     results, num + 1)

\* the keys of combined_result
CombinedKeys ==
    {"summary", "key_topics", "important_points", "structured_content",
     "images_analysis", "insights", "recommendations", "processing_info"}

\* _combine_json_results
CombineJsonResults(results, tk) ==
    LET acc == CombineLoop(CombineStart, results, 1)
    IN [NoValue EXCEPT
            !.t = "dict",
            !.keys = CombinedKeys,
            !.summary =
                IF acc.summaries # <<>>
                THEN Join(acc.summaries, <<" ">>)
                ELSE <<"Content processed across multiple chunks">>,
            !.fields =
                [key_topics |-> ListOfSet(acc.all_key_topics),
                 important_points |-> ListOfSet(acc.all_important_points),
                 insights |-> ListOfSet(acc.all_insights),
                 recommendations |-> ListOfSet(acc.all_recommendations),
                 structured_content |-> acc.structured_content,
                 images_analysis |-> acc.images_analysis],
            !.processing_info =
                [keys |-> {"total_chunks", "chunked_processing", "task"},
                 total_chunks |-> Len(results), task |-> tk]]

\* the text _combine_text_results appends for the num-th result
ChunkBlock(result, num) ==
    <<"---", " ", "Chunk", " ", ToString(num), " ", "---", NL>>
    \o (IF result.t = "dict" /\ "content" \in result.keys
        THEN result.content
        ELSE IF result.t = "dict" /\ "raw_response" \in result.keys
             THEN result.raw_response
             ELSE PyStr(result))

\* _combine_text_results
CombineTextResults(results, fmt) ==
    [NoValue EXCEPT
         !.t = "dict",
         !.keys = {"content", "format", "processing_info"},
         !.content =
             Join([i \in 1..Len(results) |->
                       ChunkBlock(results[i], i)], <<NL, NL>>),
         !.format = fmt,
         !.processing_info =
             [keys |-> {"total_chunks", "chunked_processing"},
              total_chunks |-> Len(results), task |-> <<>>]]

\* _combine_results
CombineChunkResults(results, fmt, tk) ==
    IF fmt = "structured_json"
    THEN CombineJsonResults(results, tk)
    ELSE CombineTextResults(results, fmt)

----------------------------------------------------------------------------
(* core.py: parse_folder.  A folder is a record [valid, files], files in   *)
(* the order rglob or iterdir yields them.                                  *)

\* _is_programming_file
IsProgrammingFile(f) == f.suffix \in {".py"}

\* _get_supported_extensions
SupportedExtensions(parsers) == UNION {parsers[i].extensions : i \in 1..Len(parsers)}

\* should_exclude of _scan_folder with the default exclude patterns
ShouldExclude(f) == f.hidden

\* list(_scan_folder(folder_path, ...)): _is_supported_file runs
\* _ensure_parsers_loaded for every file met
ScanFolder(files, parsers) ==
    SelectSeq(files, LAMBDA f : /\ f.suffix \in SupportedExtensions(parsers)
                                /\ ~IsProgrammingFile(f)
                                /\ ~ShouldExclude(f))

\* d.get(key, 0) on a dict d
DictGet(d, key) ==
    IF \E j \in 1..Len(d) : d[j][1] = key
    THEN d[CHOOSE j \in 1..Len(d) : d[j][1] = key][2]
    ELSE 0

RECURSIVE FolderParseLoop_StopsAtFailure(_, _, _)
\* the parse loop stopping at the first file whose parse raises
FolderParseLoop_StopsAtFailure(acc, eps, files) ==
    IF files = <<>> THEN acc
    ELSE LET parsed == ParseResult(acc.st, eps, Head(files), NoType)
         IN IF parsed.error = ""
            THEN FolderParseLoop_StopsAtFailure(
                     [st |-> parsed.st,
                      documents |-> Append(acc.documents, parsed.doc),
                      failed_files |-> acc.failed_files,
                      file_types_processed |-> acc.file_types_processed],
                     eps, Tail(files))
            ELSE [st |-> parsed.st,
                  documents |-> acc.documents,
                  failed_files |-> Append(acc.failed_files,
                                          <<Head(files).name, parsed.error>>),
                  file_types_processed |-> acc.file_types_processed]

RECURSIVE FolderParseLoop(_, _, _)
\* for file_path in file_iterator: acc holds the module globals and the
\* locals documents, failed_files and summary.file_types_processed
FolderParseLoop(acc, eps, files) ==
    IF files = <<>> THEN acc
    ELSE LET parsed == ParseResult(acc.st, eps, Head(files), NoType)
         IN FolderParseLoop(
                IF parsed.error = ""
                THEN [st |-> parsed.st,
                      documents |-> Append(acc.documents, parsed.doc),
                      failed_files |-> acc.failed_files,
                      file_types_processed |->
                          DictSet(acc.file_types_processed, Head(files).suffix,
                                  DictGet(acc.file_types_processed,
                                          Head(files).suffix) + 1)]
                ELSE [st |-> parsed.st,
                      documents |-> acc.documents,
                      failed_files |-> Append(acc.failed_files,
                                              <<Head(files).name, parsed.error>>),
                      file_types_processed |-> acc.file_types_processed],
                eps, Tail(files))

\* ParsingSummary(); the section and image totals of the documents are not
\* kept
NewSummary ==
    [total_files_found |-> 0, programming_files_ignored |-> 0,
     files_parsed_successfully |-> 0, files_failed |-> 0,
     file_types_processed |-> <<>>, programming_files_list |-> <<>>,
     failed_files_list |-> <<>>]

\* parse_folder(folder_path)
ParseFolderResult(st, eps, folder) ==
    LET programming_files == SelectSeq(folder.files, IsProgrammingFile)
        counted ==
            [NewSummary EXCEPT
                 !.total_files_found = Len(folder.files),
                 !.programming_files_ignored = Len(programming_files),
                 !.programming_files_list =
                     [i \in 1..Len(programming_files) |-> programming_files[i].name]]
        scanned == IF folder.files # <<>> THEN EnsureParsersLoaded(st, eps) ELSE st
        files == ScanFolder(folder.files, scanned.registry)
        acc == FolderParseLoop([st |-> scanned, documents |-> <<>>,
                                failed_files |-> <<>>,
                                file_types_processed |-> <<>>],
                               eps, files)
    IN IF ~folder.valid
       THEN [st |-> st, error |-> "ValueError", documents |-> <<>>,
             summary |-> NewSummary]
       ELSE IF files = <<>>
       THEN [st |-> scanned, error |-> "", documents |-> <<>>,
             summary |-> counted]
       ELSE [st |-> acc.st, error |-> "", documents |-> acc.documents,
             summary |-> [counted EXCEPT
                              !.files_parsed_successfully = Len(acc.documents),
                              !.files_failed = Len(acc.failed_files),
                              !.failed_files_list = acc.failed_files,
                              !.file_types_processed = acc.file_types_processed]]

----------------------------------------------------------------------------
(* Inputs *)

Atoms == {<<"a">>, <<" ">>, SentSep, ParaSep, SectionSep}

RECURSIVE Flatten(_)
Flatten(parts) ==
    IF parts = <<>> THEN <<>> ELSE Head(parts) \o Flatten(Tail(parts))

\* the texts handed to the chunker: every sequence of at most MaxAtoms atoms
Contents == {Flatten(f) : f \in UNION {[1..n -> Atoms] : n \in 0..MaxAtoms}}

\* the chunk_size values handed to the chunker
Budgets == (-1)..MaxBudget

\* the largest number of entry points installed, of files in a folder and
\* of calls of parse and parse_folder in the process
MaxPlugins == 2
MaxFiles == 2
MaxCalls == 2

PluginName(i) == "plugin" \o ToString(i)

\* an entry point: ep.load() or maker() raises, or the parser it makes
\* answers can_parse the same way for every target
EntryPointKinds ==
    {[load |-> "ok", can_parse |-> c] : c \in {"true", "false", "raises"}}
        \cup {[load |-> "raises", can_parse |-> "false"]}

\* importlib.metadata.entry_points(group="panparsex.parsers")
EntryPointLists ==
    UNION {{[i \in 1..n |-> [name |-> PluginName(i), load |-> f[i].load,
                             can_parse |-> f[i].can_parse]] :
                f \in [1..n -> EntryPointKinds]} : n \in 0..MaxPlugins}

\* the targets handed to parse
Targets ==
    {[scheme |-> "", name |-> "target", suffix |-> sfx, exists |-> on[1],
      corrupt |-> on[2], hidden |-> FALSE] :
         sfx \in {".pdf", ".txt", ".foo"},
         on \in {<<FALSE, FALSE>>, <<TRUE, FALSE>>, <<TRUE, TRUE>>}}
        \cup {[scheme |-> "https://", name |-> "https://host/page",
               suffix |-> "", exists |-> FALSE, corrupt |-> FALSE,
               hidden |-> FALSE]}

\* the content_type keyword handed to parse
ContentTypeArgs == {NoType, "application/pdf"}

FileKinds ==
    {[suffix |-> ".pdf", corrupt |-> FALSE, hidden |-> FALSE],
     [suffix |-> ".txt", corrupt |-> TRUE, hidden |-> FALSE],
     [suffix |-> ".txt", corrupt |-> FALSE, hidden |-> TRUE]}

\* the folders handed to parse_folder: at most MaxFiles files, and a path
\* that is no directory
Folders ==
    {[valid |-> FALSE, files |-> <<>>]}
        \cup UNION {{[valid |-> TRUE,
                      files |-> [i \in 1..n |->
                                     [scheme |-> "", name |-> "f" \o ToString(i),
                                      suffix |-> f[i].suffix, exists |-> TRUE,
                                      corrupt |-> f[i].corrupt,
                                      hidden |-> f[i].hidden]]] :
                         f \in [1..n -> FileKinds]} : n \in 0..MaxFiles}

\* the chunk_size arguments of process_document and _process_with_chunking
ChunkSizeArgs == {NoneVal, -1, 0, BlockTokens + 20, 3 * BlockTokens}

\* the texts of serialized documents
DocContents == {PrepareContentForAI(d) : d \in Docs}

\* the context_prompt arguments of a direct _process_chunk_with_context call
ContextPrompts == {<<>>, <<"Previous context summary: ", "a", NL, NL>>}

\* the most sections of a document handed to _prepare_content_for_ai
MaxRichSections == 2

\* two ImageMetadata: one with dimensions and associated text, one without
Image1 ==
    [image_id |-> "img1", page_number |-> 1,
     dimensions |-> [width |-> 2, height |-> 3], associated_text |-> <<"x">>]
Image2 ==
    [image_id |-> "img2", page_number |-> 2,
     dimensions |-> NoDimensions, associated_text |-> NoText]

\* the chunk lists of a section
ChunkListChoices ==
    LET ca == PlainChunk(<<"a">>)
        cb == [text |-> <<"b">>, associated_images |-> <<"img1", "img2">>]
    IN {<<>>, <<ca, cb>>, <<cb, ca>>}

SectionChoices ==
    {[heading |-> h, images |-> im, chunks |-> cs] :
         h \in {NoText, <<"H">>}, im \in {<<>>, <<Image1>>},
         cs \in ChunkListChoices}

\* the documents handed to _prepare_content_for_ai
RichDocs ==
    {[title |-> top[1], source |-> <<"src">>, content_type |-> <<"text/plain">>,
      images |-> top[2], sections |-> secs] :
         top \in {<<NoText, <<>>>>, <<<<"T">>, <<Image1, Image2>>>>},
         secs \in UNION {[1..n -> SectionChoices] : n \in 0..MaxRichSections}}

\* a third ImageMetadata, on the page of the first
Image3 == [Image2 EXCEPT !.image_id = "img3", !.page_number = 1]
Images == {Image1, Image2, Image3}

\* the most pages of a PDF, the most images the extractor returns for it, and
\* the most add_image calls on one document
MaxPages == 2
MaxImages == 2
MaxAdds == 2

\* the arguments and the environment of a PDFParser.parse call: the pages'
\* texts, what the extractor does and returns, whether pypdf and pdfminer
\* work, and the text pdfminer extracts
PdfCalls ==
    {[method |-> "PDFParser.parse", extraction |-> x, pypdf |-> y,
      pages |-> ps, extracted |-> im, pdfminer |-> z, pdfminer_text |-> t] :
         x \in {"off", "on", "fails"}, y \in {"ok", "fails"},
         ps \in UNION {[1..n -> {NoText, <<"a">>}] : n \in 0..MaxPages},
         im \in UNION {[1..n -> Images] : n \in 0..MaxImages},
         z \in {"ok", "fails"}, t \in {NoText, <<"a">>}}

\* the documents add_image is called on: up to MaxRichSections sections
StartDocs ==
    {PlainDoc([i \in 1..n |-> << <<"a">> >>]) : n \in 0..MaxRichSections}

\* the section_index arguments of add_image
SectionIndexArgs == {NoneVal} \cup ((-1)..(MaxRichSections + 1))

\* the budget of the scenarios
ScenarioBudget == 1000

\* a section of PassageTokens + 1 tokens: its header and a passage
ScenarioSection == <<Marker, "P">>

\* three sections of 600 tokens each
ScenarioB == ScenarioSection \o <<NL>> \o ScenarioSection \o <<NL>> \o ScenarioSection

\* one paragraph of 6000 tokens without a delimiter
ScenarioC == <<"B", "B">>

ScenarioContents == {ScenarioB, ScenarioC}

\* the most chunk results a merger call is handed, the padding aside
MaxPieces == 2
\* the results of an empty object put after the first result, so that the
\* results after them have two-digit numbers
PadPieces == 9
Pads == {0, PadPieces}

\* the response that is the empty JSON object
EmptyObject == CHOOSE r \in Responses : r.json = "object" /\ r.keys = {}

\* the responses the chunk results handed to the merger are parsed from
ResponseLists == UNION {[1..n -> Responses] : n \in 0..MaxPieces}

Padded(rs, pad) ==
    IF rs = <<>> THEN rs
    ELSE <<rs[1]>> \o [i \in 1..pad |-> EmptyObject] \o Tail(rs)

\* chunk_results as the loop of _process_with_chunking builds it from the
\* responses rs
PieceResults(rs, fmt) ==
    [i \in 1..Len(rs) |-> ParseChunk(fmt, rs[i], i).value]

----------------------------------------------------------------------------
(* The requests *)

\* SingleRequest as it would be if the single call carried a context block
SingleRequest_WithContext(text) ==
    [kind |-> "single", chunk_num |-> 0, total_chunks |-> 0,
     context_prompt |-> <<"Previous context summary: ", NL, NL>>, text |-> text]

\* the completion call of _process_single_chunk: the user prompt holds the
\* content and nothing else
SingleRequest(text) ==
    [kind |-> "single", chunk_num |-> 0, total_chunks |-> 0,
     context_prompt |-> <<>>, text |-> text]

\* the completion call of _process_chunk_with_context
ChunkRequest(chunk, context_prompt, num, total) ==
    [kind |-> "chunk", chunk_num |-> num, total_chunks |-> total,
     context_prompt |-> context_prompt, text |-> chunk]

\* content_tokens <= self.max_input_tokens
FitsSingleCall(text, m) == TokenCount(text) <= MaxInputTokens(m)

\* the chunk size _process_with_chunking splits with
PlannedChunkSize(m, tk, mt, cs) ==
    IF cs = NoneVal
    THEN MaxInputTokens(m) - SystemPromptTokens(tk) - ContextTokens
    ELSE cs

----------------------------------------------------------------------------
(* The operations *)

Init ==
    /\ pc = "idle"
    /\ op = "none"
    /\ model = "gpt-4o-mini"
    /\ content = <<>>
    /\ output_format = "structured_json"
    /\ chunk_size = NoneVal
    /\ chunks = <<>>
    /\ chunk_num = 0
    /\ requests = <<>>
    /\ responses = <<>>
    /\ split_calls = 0
    /\ merge_calls = 0
    /\ outcome = NoOutcome
    /\ chunk_size_arg = NoneVal
    /\ task = <<>>
    /\ max_tokens = 0
    /\ chunk_results = <<>>
    /\ cancel_requested = FALSE
    /\ document = PlainDoc(<<>>)
    /\ call = NoCall
    /\ registry = <<>>
    /\ loaded_eps = FALSE
    /\ parsers_imported = FALSE
    /\ load_runs = 0
    /\ entry_points = [read |-> FALSE, eps |-> <<>>]

\* process_document up to its first completion call or its first error.
\* The module never imports sys, so the print(..., file=sys.stderr) of the
\* chunking branch raises NameError before _process_with_chunking is called.
ProcessDocument(m, doc, fmt, cs) ==
    /\ pc = "idle"
    /\ UNCHANGED aside
    /\ op' = "process_document"
    /\ chunk_size_arg' = cs
    /\ task' = <<"a">>
    /\ max_tokens' = 4000
    /\ model' = m
    /\ content' = PrepareContentForAI(doc)
    /\ output_format' = fmt
    /\ chunk_size' = cs
    /\ IF FitsSingleCall(PrepareContentForAI(doc), m)
       THEN /\ requests' = Append(requests, SingleRequest(PrepareContentForAI(doc)))
            /\ pc' = "await_single"
            /\ outcome' = outcome
       ELSE /\ requests' = requests
            /\ pc' = "done"
            /\ outcome' = Raised("NameError")
    /\ UNCHANGED <<chunks, chunk_num, responses, split_calls, merge_calls,
                   chunk_results>>

\* _process_with_chunking called on its own: it plans the chunk size, splits,
\* and raises NameError at its first print(..., file=sys.stderr)
ProcessWithChunking(m, text, tk, fmt, mt, cs) ==
    /\ pc = "idle"
    /\ UNCHANGED aside
    /\ op' = "_process_with_chunking"
    /\ model' = m
    /\ content' = text
    /\ output_format' = fmt
    /\ chunk_size_arg' = cs
    /\ task' = tk
    /\ max_tokens' = mt
    /\ chunk_size' = PlannedChunkSize(m, tk, mt, cs)
    /\ chunks' = SplitContentIntoChunks(text, PlannedChunkSize(m, tk, mt, cs))
    /\ split_calls' = split_calls + 1
    /\ pc' = "done"
    /\ outcome' = Raised("NameError")
    /\ UNCHANGED <<chunk_num, requests, responses, merge_calls,
                   chunk_results>>

\* _split_content_into_chunks called on its own
SplitContent(text, size) ==
    /\ pc = "idle"
    /\ UNCHANGED aside
    /\ op' = "_split_content_into_chunks"
    /\ content' = text
    /\ chunk_size' = size
    /\ chunks' = SplitContentIntoChunks(text, size)
    /\ split_calls' = split_calls + 1
    /\ pc' = "done"
    /\ outcome' = Returned([NoValue EXCEPT !.t = "list"])
    /\ UNCHANGED <<model, output_format, chunk_num, requests, responses,
                   merge_calls,
                   chunk_results>>
    /\ UNCHANGED callArgs

\* _process_chunk_with_context called on its own, up to its completion call
ProcessChunkWithContext(chunk, context_prompt, fmt, num, total) ==
    /\ pc = "idle"
    /\ UNCHANGED aside
    /\ op' = "_process_chunk_with_context"
    /\ content' = chunk
    /\ output_format' = fmt
    /\ chunk_num' = num
    /\ requests' = Append(requests, ChunkRequest(chunk, context_prompt, num, total))
    /\ pc' = "await_chunk"
    /\ UNCHANGED <<model, chunk_size, chunks, responses, split_calls,
                   merge_calls,
                   chunk_results, outcome>>
    /\ UNCHANGED callArgs

\* _combine_chunk_results called on its own, on the results
\* _process_chunk_with_context makes of the responses rs, the first of them
\* followed by pad results of an empty object
Combine(rs, pad, fmt, tk) ==
    /\ pc = "idle"
    /\ UNCHANGED aside
    /\ \A i \in 1..Len(Padded(rs, pad)) :
           ParseChunk(fmt, Padded(rs, pad)[i], i).kind = "returned"
    /\ op' = "_combine_chunk_results"
    /\ output_format' = fmt
    /\ task' = tk
    /\ chunk_results' = PieceResults(Padded(rs, pad), fmt)
    /\ merge_calls' = merge_calls + 1
    /\ outcome' = Returned(CombineChunkResults(PieceResults(Padded(rs, pad), fmt),
                                               fmt, tk))
    /\ pc' = "done"
    /\ UNCHANGED <<model, content, chunk_size, chunks, chunk_num, requests,
                   responses, split_calls, chunk_size_arg, max_tokens>>

\* CompletionError as it would be if the method caught the error and
\* returned an empty result
CompletionError_Swallowed == Returned([NoValue EXCEPT !.t = "dict"])

\* what the method makes of a completion call that raises: nothing catches it
CompletionError == Raised("ServiceError")

\* client.chat.completions.create returns r: the method parses it and returns
CompletionReturns(r) ==
    /\ pc \in {"await_single", "await_chunk"}
    /\ UNCHANGED aside
    /\ responses' = Append(responses, r)
    /\ outcome' = IF pc = "await_single"
                  THEN ParseSingle(output_format, r)
                  ELSE ParseChunk(output_format, r, chunk_num)
    /\ pc' = "done"
    /\ UNCHANGED <<op, model, content, output_format, chunk_size, chunks,
                   chunk_num, requests, split_calls, merge_calls,
                   chunk_results>>
    /\ UNCHANGED callArgs

\* client.chat.completions.create raises
CompletionFails ==
    /\ pc \in {"await_single", "await_chunk"}
    /\ UNCHANGED aside
    /\ responses' = Append(responses, ServiceFailure)
    /\ outcome' = CompletionError
    /\ pc' = "done"
    /\ UNCHANGED <<op, model, content, output_format, chunk_size, chunks,
                   chunk_num, requests, split_calls, merge_calls,
                   chunk_results>>
    /\ UNCHANGED callArgs

\* the caller asks for cancellation while the completion call of a chunk is
\* in flight; no method of AIProcessor takes or polls such a request
RequestCancellation ==
    /\ pc = "await_chunk"
    /\ ~cancel_requested
    /\ cancel_requested' = TRUE
    /\ UNCHANGED <<aiVars, document, call, coreVars>>

\* _prepare_content_for_ai called on its own
PrepareContent(doc) ==
    /\ pc = "idle"
    /\ op' = "_prepare_content_for_ai"
    /\ document' = doc
    /\ content' = PrepareContentForAI(doc)
    /\ pc' = "done"
    /\ outcome' = Returned([NoValue EXCEPT !.t = "str"])
    /\ UNCHANGED <<model, output_format, chunk_size, chunks, chunk_num,
                   requests, responses, split_calls, merge_calls, callArgs,
                   chunk_results, cancel_requested, call, coreVars>>

\* PDFParser.parse
PdfParse(c) ==
    /\ pc = "idle"
    /\ op' = "PDFParser.parse"
    /\ call' = c
    /\ document' = PdfParseDocument(c)
    /\ pc' = "done"
    /\ outcome' = Returned([NoValue EXCEPT !.t = "UnifiedDocument"])
    /\ UNCHANGED <<model, content, output_format, chunk_size, chunks,
                   chunk_num, requests, responses, split_calls, merge_calls,
                   callArgs, chunk_results, cancel_requested, coreVars>>

\* UnifiedDocument(meta=..., sections=[...]): a document without images
NewDocument(doc) ==
    /\ pc = "idle"
    /\ op' = "UnifiedDocument"
    /\ call' = [method |-> "add_image", calls |-> <<>>]
    /\ document' = doc
    /\ pc' = "done"
    /\ outcome' = Returned([NoValue EXCEPT !.t = "UnifiedDocument"])
    /\ UNCHANGED <<model, content, output_format, chunk_size, chunks,
                   chunk_num, requests, responses, split_calls, merge_calls,
                   callArgs, chunk_results, cancel_requested, coreVars>>

\* doc.add_image(image, section_index) on a document made by NewDocument;
\* call.calls lists the add_image calls made on it, oldest first
AddImageCall(image, section_index) ==
    /\ pc = "done"
    /\ op \in {"UnifiedDocument", "add_image"}
    /\ Len(call.calls) < MaxAdds
    /\ op' = "add_image"
    /\ call' = [call EXCEPT
                    !.calls = Append(@, [image |-> image,
                                         section_index |-> section_index])]
    /\ document' = AddImage(document, image, section_index)
    /\ UNCHANGED <<pc, model, content, output_format, chunk_size, chunks,
                   chunk_num, requests, responses, split_calls, merge_calls,
                   callArgs, chunk_results, cancel_requested, outcome,
                   coreVars>>

CoreOps == {"parse", "parse_folder"}

\* the module globals of core.py
Globals ==
    [registry |-> registry, loaded_eps |-> loaded_eps,
     parsers_imported |-> parsers_imported, load_runs |-> load_runs,
     entry_points |-> entry_points]

SetGlobals(st) ==
    /\ registry' = st.registry
    /\ loaded_eps' = st.loaded_eps
    /\ parsers_imported' = st.parsers_imported
    /\ load_runs' = st.load_runs
    /\ entry_points' = st.entry_points

\* parse and parse_folder are called one after the other in one process
CoreReady == pc = "idle" \/ (pc = "done" /\ op \in CoreOps /\ call.n < MaxCalls)

WhenCoreReady(S) == IF CoreReady THEN S ELSE {}

\* the entry points installed in the process do not change once read
InstalledEntryPoints ==
    IF entry_points.read THEN {entry_points.eps} ELSE EntryPointLists

\* parse(target, content_type=content_type); call.n counts the calls of
\* parse and parse_folder made in the process
Parse(target, content_type, eps) ==
    /\ CoreReady
    /\ LET parsed == ParseResult(Globals, eps, target, content_type)
       IN /\ SetGlobals(parsed.st)
          /\ call' = [method |-> "parse",
                      n |-> IF pc = "idle" THEN 1 ELSE call.n + 1,
                      target |-> target, content_type |-> content_type,
                      consulted |-> parsed.consulted,
                      dispatched |-> parsed.dispatched, doc |-> parsed.doc]
          /\ outcome' = IF parsed.error = ""
                        THEN Returned([NoValue EXCEPT !.t = "UnifiedDocument"])
                        ELSE Raised(parsed.error)
    /\ op' = "parse"
    /\ pc' = "done"
    /\ UNCHANGED <<model, content, output_format, chunk_size, chunks,
                   chunk_num, requests, responses, split_calls, merge_calls,
                   callArgs, chunk_results, cancel_requested, document>>

\* parse_folder(folder_path)
ParseFolder(folder, eps) ==
    /\ CoreReady
    /\ LET parsed == ParseFolderResult(Globals, eps, folder)
       IN /\ SetGlobals(parsed.st)
          /\ call' = [method |-> "parse_folder",
                      n |-> IF pc = "idle" THEN 1 ELSE call.n + 1,
                      folder |-> folder, documents |-> parsed.documents,
                      summary |-> parsed.summary]
          /\ outcome' = IF parsed.error = ""
                        THEN Returned([NoValue EXCEPT !.t = "tuple"])
                        ELSE Raised(parsed.error)
    /\ op' = "parse_folder"
    /\ pc' = "done"
    /\ UNCHANGED <<model, content, output_format, chunk_size, chunks,
                   chunk_num, requests, responses, split_calls, merge_calls,
                   callArgs, chunk_results, cancel_requested, document>>

\* the arguments a caller can choose from: a method is called only while no
\* call is running
WhenIdle(S) == IF pc = "idle" THEN S ELSE {}

Next ==
    \/ \E m \in WhenIdle(Models), d \in Docs, fmt \in OutputFormats, cs \in ChunkSizeArgs :
           ProcessDocument(m, d, fmt, cs)
    \/ \E m \in WhenIdle(Models), text \in DocContents, tk \in Tasks,
          fmt \in OutputFormats, mt \in MaxTokensArgs, cs \in ChunkSizeArgs :
           ProcessWithChunking(m, text, tk, fmt, mt, cs)
    \/ \E text \in WhenIdle(Contents), size \in Budgets :
           SplitContent(text, size)
    \/ \E text \in WhenIdle(ScenarioContents) : SplitContent(text, ScenarioBudget)
    \/ \E m \in WhenIdle(Models), tk \in Tasks, fmt \in OutputFormats,
          mt \in MaxTokensArgs :
           ProcessWithChunking(m, ScenarioB, tk, fmt, mt, ScenarioBudget)
    \/ \E chunk \in WhenIdle({<<"a">>, <<"B">>}), cp \in ContextPrompts,
          fmt \in OutputFormats, total \in 1..2, num \in 1..2 :
           num <= total /\ ProcessChunkWithContext(chunk, cp, fmt, num, total)
    \/ \E doc \in WhenIdle(RichDocs) : PrepareContent(doc)
    \/ \E c \in WhenIdle(PdfCalls) : PdfParse(c)
    \/ \E doc \in WhenIdle(StartDocs) : NewDocument(doc)
    \/ \E image \in Images, section_index \in SectionIndexArgs :
           AddImageCall(image, section_index)
    \/ \E target \in WhenCoreReady(Targets), content_type \in ContentTypeArgs,
          eps \in InstalledEntryPoints :
           Parse(target, content_type, eps)
    \/ \E folder \in WhenCoreReady(Folders), eps \in InstalledEntryPoints :
           ParseFolder(folder, eps)
    \/ \E rs \in WhenIdle(ResponseLists), pad \in Pads, fmt \in OutputFormats,
          tk \in Tasks :
           Combine(rs, pad, fmt, tk)
    \/ \E r \in Responses : CompletionReturns(r)
    \/ CompletionFails
    \/ RequestCancellation

Spec == Init /\ [][Next]_vars

----------------------------------------------------------------------------
(* The claims *)

\* the text has a sentence delimiter in it
HasSentSep(s) == \E i \in 1..Len(s) : StartsWithAt(s, SentSep, i)

\* the text without its whitespace characters
NonWhitespace(s) == SelectSeq(s, LAMBDA c : c \notin Whitespace)

\* the run is on the chunked path
ChunkedPath ==
    \/ op = "_process_with_chunking"
    \/ op = "process_document" /\ TokenCount(content) > MaxInputTokens(model)

\* the run has ended and no completion call of it failed
EndedWithoutServiceError ==
    /\ pc = "done"
    /\ \A k \in 1..Len(responses) : responses[k].json # "raised"

\* the result of the i-th completion call of a chunked run
PieceResult(i) == ParseChunk(output_format, responses[i], i).value

\* C1: for a budget > 0 every piece the chunker returns has a token count
\* <= budget, unless the piece is a single atomic sentence (there is no ". "
\* in it): a paragraph over the budget that holds a sentence delimiter is
\* never emitted whole.
C1_BudgetRespect ==
    (split_calls > 0 /\ chunk_size > 0) =>
        \A i \in 1..Len(chunks) :
            TokenCount(chunks[i]) <= chunk_size \/ ~HasSentSep(chunks[i])

\* C2: the pieces of the chunker, concatenated in index order, are the content
\* up to whitespace: no character that is not whitespace is dropped, inserted
\* or duplicated.
C2_LosslessReconstruction ==
    split_calls > 0 =>
        NonWhitespace(Flatten(chunks)) = NonWhitespace(content)

\* C3: when the content exceeds the input budget and every completion call
\* succeeds, process_document ends by returning a merged result, having
\* invoked the chunker once and issued one completion call per piece.
C3_ChunkedRunReturnsMerged ==
    (op = "process_document" /\ ChunkedPath /\ EndedWithoutServiceError) =>
        /\ outcome.kind = "returned"
        /\ split_calls = 1
        /\ merge_calls = 1
        /\ Len(requests) = Len(chunks)

\* C4: when the content's token count is within the input budget,
\* process_document issues exactly one completion call, with no rolling
\* context in it, returns what that call's response parses to, untagged, and
\* invokes neither the chunker nor the merger.
C4_SingleShotPath ==
    (op = "process_document" /\ TokenCount(content) <= MaxInputTokens(model)) =>
        /\ split_calls = 0 /\ merge_calls = 0 /\ chunks = <<>>
        /\ Len(requests) = 1
        /\ requests[1].kind = "single"
        /\ requests[1].context_prompt = <<>>
        /\ requests[1].text = content
        /\ Len(responses) <= 1
        /\ (pc = "done") = (Len(responses) = 1)
        /\ (Len(responses) = 1 /\ responses[1].json # "raised") =>
              LET r == responses[1]
                  v == outcome.value
              IN  /\ outcome.kind = "returned"
                  /\ "chunk_number" \notin v.keys
                  /\ IF output_format # "structured_json"
                     THEN /\ v.keys = {"content", "format"}
                          /\ v.content = r.text /\ v.format = output_format
                     ELSE IF r.json = "object"
                          THEN v.t = "dict" /\ v.keys = r.keys
                               /\ v.summary = r.summary
                          ELSE IF r.json = "nonobject"
                               THEN v.t = "nondict" /\ v.raw_response = r.text
                               ELSE /\ v.keys = {"raw_response", "format"}
                                    /\ v.raw_response = r.text
                                    /\ v.format = "text"

C4_Witness ==
    /\ op = "process_document"
    /\ TokenCount(content) <= MaxInputTokens(model)
    /\ pc = "done"
    /\ outcome.kind = "returned"
    /\ Len(requests) = 1

\* C5: a chunked run issues its completion calls in piece order, one per
\* piece, and hands the merger the results in that order, the result of call
\* i tagged with chunk number i.
C5_CallsInPieceOrder ==
    (ChunkedPath /\ EndedWithoutServiceError) =>
        /\ Len(requests) = Len(chunks)
        /\ Len(responses) = Len(chunks)
        /\ \A i \in 1..Len(requests) :
               /\ requests[i].chunk_num = i
               /\ requests[i].text = chunks[i]
               /\ PieceResult(i).chunk_number = i
        /\ merge_calls = 1

\* C6: in a chunked run the request for the first piece carries no rolling
\* context, and the request for piece i+1 carries the context derived from
\* the result of piece i and of no earlier piece.
C6_RollingContextFromPrevious ==
    (ChunkedPath /\ EndedWithoutServiceError /\ Len(chunks) >= 1) =>
        /\ Len(requests) = Len(chunks)
        /\ requests[1].context_prompt = <<>>
        /\ \A i \in 1..(Len(requests) - 1) :
               requests[i + 1].context_prompt =
                   ContextPrompt(i, UpdateContextSummary(output_format,
                                                         PieceResult(i)))

\* C7: whatever a piece result holds (a structured result with a summary, a
\* text result with a content, a raw fallback), the rolling context derived
\* from it is at most a fixed number of characters long.
C7_RollingContextBounded ==
    (op = "_process_chunk_with_context" /\ outcome.kind = "returned") =>
        Len(UpdateContextSummary(output_format, outcome.value))
            <= ContextSlice + Len(Ellipsis)

C9_FormatErrorsFallBack ==
    (/\ op \in {"process_document", "_process_chunk_with_context"}
     /\ output_format = "structured_json"
     /\ Len(responses) = 1
     /\ responses[1].json \in {"malformed", "nonobject"}) =>
        /\ outcome.kind = "returned"
        /\ outcome.value.t = "dict"
        /\ {"raw_response", "format"} \subseteq outcome.value.keys
        /\ outcome.value.raw_response = responses[1].text
        /\ outcome.value.format = "text"

\* C10: on the chunked path a piece budget <= 0, computed or supplied as
\* chunk_size, makes the run fail with a configuration error before the
\* chunker is invoked and before any completion call is issued.
C10_FailFastOnNonPositiveBudget ==
    (ChunkedPath /\ chunk_size # NoneVal /\ chunk_size <= 0) =>
        /\ split_calls = 0
        /\ requests = <<>>
        /\ pc = "done" => outcome = Raised("ConfigurationError")

\* C11: the chunk size _process_with_chunking computes is floor(window * 0.8)
\* minus the tokens of the system prompt minus the caller's max_tokens, for
\* every model of the table and every max_tokens.
C11_BudgetReservesMaxTokens ==
    (op = "_process_with_chunking" /\ chunk_size_arg = NoneVal) =>
        chunk_size = (ModelLimit(model) * 8) \div 10
                     - (TemplateTokens + TokenCount(task)) - max_tokens

\* the entries of a list
Range(xs) == {xs[i] : i \in 1..Len(xs)}

\* no entry of the list occurs twice
NoDuplicates(xs) == \A i, j \in 1..Len(xs) : xs[i] = xs[j] => i = j

\* the list in the opposite order
Reverse(xs) == [i \in 1..Len(xs) |-> xs[Len(xs) + 1 - i]]

\* the merger was called on structured results
MergedJson ==
    op = "_combine_chunk_results" /\ output_format = "structured_json"

\* the fields of the merged result
Merged == outcome.value.fields

ListFields == {"key_topics", "important_points", "insights", "recommendations"}

\* the entries the pieces hold under the list field f: a piece without the
\* field holds none
PieceEntries(f) ==
    UNION {Range(chunk_results[i].fields[f]) :
               i \in {k \in 1..Len(chunk_results) : f \in chunk_results[k].keys}}

\* C12: for each of key_topics, important_points, insights and
\* recommendations the merged list holds every entry of any piece's list and
\* nothing else, each distinct value once, whatever the order of the pieces; a
\* piece without the field contributes nothing, and the merged list is empty
\* when no piece has the field.
C12_MergeSetSemantics ==
    MergedJson =>
        \A f \in ListFields :
            /\ Range(Merged[f]) = PieceEntries(f)
            /\ NoDuplicates(Merged[f])
            /\ LET other == CombineJsonResults(Reverse(chunk_results), task)
               IN /\ Range(other.fields[f]) = Range(Merged[f])
                  /\ Len(other.fields[f]) = Len(Merged[f])

C12_Witness ==
    /\ MergedJson
    /\ Len(chunk_results) = 2
    /\ "key_topics" \in chunk_results[1].keys \cap chunk_results[2].keys
    /\ Range(chunk_results[1].fields.key_topics)
           \cap Range(chunk_results[2].fields.key_topics) # {}
    /\ "insights" \notin chunk_results[1].keys
    /\ Len(Merged.key_topics) = 3
    /\ Len(Merged.insights) = 2

RECURSIVE SumOfTotals(_, _)
\* the sum of the total_images counters of the pieces from the i-th on
SumOfTotals(results, i) ==
    IF i > Len(results) THEN 0
    ELSE (IF /\ "images_analysis" \in results[i].keys
             /\ "total_images" \in results[i].fields.images_analysis.keys
          THEN results[i].fields.images_analysis.total_images
          ELSE 0)
         + SumOfTotals(results, i + 1)

\* C13: the merged total_images is the sum of the pieces' total_images, a
\* piece without images_analysis or without the counter counting 0.
C13_ImageCountSum ==
    MergedJson =>
        /\ "total_images" \in Merged.images_analysis.keys
        /\ Merged.images_analysis.total_images = SumOfTotals(chunk_results, 1)

C13_Witness ==
    /\ MergedJson
    /\ \E i, j, k \in 1..Len(chunk_results) :
           /\ "images_analysis" \notin chunk_results[i].keys
           /\ "images_analysis" \in chunk_results[j].keys
           /\ "total_images" \notin chunk_results[j].fields.images_analysis.keys
           /\ "images_analysis" \in chunk_results[k].keys
           /\ chunk_results[k].fields.images_analysis.total_images = 3
    /\ Merged.images_analysis.total_images = 3

\* the image contexts of the pieces, in piece order
RECURSIVE AllImageContexts(_, _)
AllImageContexts(results, i) ==
    IF i > Len(results) THEN <<>>
    ELSE (IF /\ "images_analysis" \in results[i].keys
             /\ "image_contexts" \in results[i].fields.images_analysis.keys
          THEN results[i].fields.images_analysis.image_contexts
          ELSE <<>>)
         \o AllImageContexts(results, i + 1)

\* C14: the merged image_contexts is the concatenation of the pieces'
\* image_contexts with duplicates removed: a context that two pieces hold is
\* in the merged list once.
C14_ImageContextsDeduplicated ==
    MergedJson =>
        /\ Range(Merged.images_analysis.image_contexts)
               = Range(AllImageContexts(chunk_results, 1))
        /\ NoDuplicates(Merged.images_analysis.image_contexts)

\* the structured_content dict of the i-th piece
PieceStructured(i) ==
    IF "structured_content" \in chunk_results[i].keys
    THEN chunk_results[i].fields.structured_content
    ELSE <<>>

RECURSIVE SumOfItems(_)
\* the number of structured_content items of the first n pieces
SumOfItems(n) ==
    IF n = 0 THEN 0 ELSE Len(PieceStructured(n)) + SumOfItems(n - 1)

\* C15: the merged structured_content holds exactly one entry for each
\* (piece, key) pair, under the key namespaced with the piece number and with
\* the piece's value: no two pairs collide, equal keys of different pieces
\* and keys that begin with a digit or an underscore included.
C15_NamespacedKeysNeverCollide ==
    MergedJson =>
        /\ Len(Merged.structured_content) = SumOfItems(Len(chunk_results))
        /\ NoDuplicates([p \in 1..Len(Merged.structured_content) |->
                             Merged.structured_content[p][1]])
        /\ \A i \in 1..Len(chunk_results) :
               \A j \in 1..Len(PieceStructured(i)) :
                   \E p \in 1..Len(Merged.structured_content) :
                       Merged.structured_content[p]
                           = <<NamespacedKey(i, PieceStructured(i)[j][1]),
                               PieceStructured(i)[j][2]>>

C15_Witness ==
    /\ MergedJson
    /\ Len(chunk_results) = PadPieces + 2
    /\ \E j \in 1..Len(PieceStructured(1)) :
           PieceStructured(1)[j][1] = <<"1", "_", "k">>
    /\ \E j \in 1..Len(PieceStructured(PadPieces + 2)) :
           PieceStructured(PadPieces + 2)[j][1] = <<"_", "k">>
    /\ \E j \in 1..Len(PieceStructured(1)) :
           \E k \in 1..Len(PieceStructured(PadPieces + 2)) :
               PieceStructured(1)[j][1] = PieceStructured(PadPieces + 2)[k][1]
    /\ Len(Merged.structured_content) = 4

\* C16: the merger is invoked only when the chunker returned more than one
\* piece: a run of the chunked path in which the chunker returned exactly one
\* piece ends by returning that piece's result, the merger not invoked.
C16_MergerOnlyForSeveralPieces ==
    (ChunkedPath /\ EndedWithoutServiceError /\ Len(chunks) = 1) =>
        /\ outcome.kind = "returned"
        /\ merge_calls = 0
        /\ Len(responses) = 1
        /\ outcome.value = PieceResult(1)

\* C17: merging a list of one piece result gives the top-level keys the
\* single call returns for the same response, with the same values under
\* them: for a response with every key, one with some of the keys, and one
\* that is no JSON.
C17_SingleResultMergeEquivalence ==
    (op = "_combine_chunk_results" /\ Len(chunk_results) = 1) =>
        \A r \in Responses :
            chunk_results = PieceResults(<<r>>, output_format) =>
                LET single == ParseSingle(output_format, r).value
                IN /\ outcome.value.keys = single.keys
                   /\ outcome.value.summary = single.summary
                   /\ outcome.value.raw_response = single.raw_response
                   /\ outcome.value.content = single.content
                   /\ outcome.value.fields = single.fields

\* the text holds the separator
HasSeparator(s, sep) == \E i \in 1..Len(s) : StartsWithAt(s, sep, i)

\* C18: when the token count of the whole content is <= the budget, the
\* chunker returns exactly one piece, equal character for character to the
\* content (section separators unaltered).
C18_FittingContentIsOnePiece ==
    (split_calls > 0 /\ TokenCount(content) <= chunk_size) =>
        chunks = <<content>>

\* the chunker was given the three 600-token sections and the budget 1000
ScenarioBCall ==
    split_calls > 0 /\ content = ScenarioB /\ chunk_size = ScenarioBudget

ForcedWhole ==
    /\ split_calls > 0
    /\ ~HasSeparator(content, SectionSep)
    /\ ~HasSeparator(content, ParaSep)
    /\ ~HasSeparator(content, SentSep)
    /\ TokenCount(content) > chunk_size

\* C20 as stated: a single paragraph over the budget without a sentence
\* delimiter is emitted whole as one piece over the budget, and the piece is
\* tagged: what the chunker returns differs from what it returns when the
\* same text fits the budget.
C20_ForcedPieceTagged ==
    ForcedWhole =>
        /\ chunks = <<content>>
        /\ \A size \in Budgets \cup {ScenarioBudget, 3 * BlockTokens} :
               TokenCount(content) <= size =>
                   SplitContentIntoChunks(content, size) # chunks

\* C20: a single paragraph over the budget without a sentence delimiter is
\* emitted whole as one piece over the budget; the piece is the bare text
\* with no tag: a call whose budget is the text's token count returns the
\* very same list.
C20_ForcedPieceWholeUntagged ==
    ForcedWhole =>
        /\ chunks = <<content>>
        /\ TokenCount(chunks[1]) > chunk_size
        /\ SplitContentIntoChunks(content, TokenCount(content)) = chunks

C20_Witness ==
    /\ ForcedWhole
    /\ content = ScenarioC
    /\ chunk_size = ScenarioBudget
    /\ Len(chunks) = 1

\* C21: when cancellation is requested while the piece loop is running, no
\* completion call is issued after the one in flight, the merger is not
\* invoked, and the caller receives a cancelled outcome, not a result.
C21_CancellationStopsRun ==
    (cancel_requested /\ pc = "done") =>
        /\ outcome.kind = "cancelled"
        /\ merge_calls = 0
        /\ Len(requests) = 1

\* the positions of the serialized text at which the text t starts
Occurrences(t) == {p \in 1..Len(content) : StartsWithAt(content, t, p)}

\* the least member of a set of numbers that is not empty
MinOf(S) == CHOOSE x \in S : \A y \in S : x <= y

\* the boundary marker of the k-th section, on a line of its own
MarkerLine(k) == <<NL, Marker, " ", ToString(k), " ", "---">>

\* where each section starts in the serialized text
SectionStarts ==
    [k \in 1..Len(document.sections) |-> MinOf(Occurrences(MarkerLine(k)))]

\* the positions of the line of the j-th chunk of the k-th section
ChunkLineOccurrences(k, j) ==
    Occurrences(<<NL, "Chunk", " ", ToString(j), ":", " ">>
                \o document.sections[k].chunks[j].text)

\* C22: the serialized text of a document with n sections holds the markers
\* '--- Section k ---' for k = 1..n in increasing order, each starting a
\* line, section k's heading and its chunks, numbered in list order, between
\* marker k and marker k + 1; the metadata lines and the images overview are
\* before the first marker.
C22_SerializationKeepsReadingOrder ==
    op = "_prepare_content_for_ai" =>
        /\ \A k \in 1..Len(document.sections) :
               Occurrences(MarkerLine(k)) # {}
        /\ LET n == Len(document.sections)
               start == SectionStarts
               end == [k \in 1..n |->
                           IF k = n THEN Len(content) + 1 ELSE start[k + 1]]
               first == IF n = 0 THEN Len(content) + 1 ELSE start[1]
           IN /\ \A k \in 1..(n - 1) : start[k] < start[k + 1]
              /\ \A k \in 1..n :
                     LET sec == document.sections[k]
                         lines == [j \in 1..Len(sec.chunks) |->
                                       {p \in ChunkLineOccurrences(k, j) :
                                            start[k] < p /\ p < end[k]}]
                     IN /\ sec.heading # NoText =>
                               \E p \in Occurrences(<<NL, "Heading:", " ">>
                                                    \o sec.heading) :
                                   /\ start[k] < p /\ p < end[k]
                                   /\ \A j \in 1..Len(sec.chunks) :
                                          \A q \in lines[j] : p < q
                        /\ \A j \in 1..Len(sec.chunks) : lines[j] # {}
                        /\ \A j \in 1..(Len(sec.chunks) - 1) :
                               MinOf(lines[j]) < MinOf(lines[j + 1])
              /\ document.title # NoText =>
                     \E p \in Occurrences(<<"Title:", " ">> \o document.title) :
                         p < first
              /\ \E p \in Occurrences(<<"Source:", " ">> \o document.source) :
                     p < first
              /\ \E p \in Occurrences(<<"Content", " ", "Type:", " ">>
                                      \o document.content_type) :
                     p < first
              /\ \A i \in 1..Len(document.images) :
                     \E p \in Occurrences(<<NL, "-", " ", "Image", " ",
                                            document.images[i].image_id>>) :
                         /\ p < first
                         /\ \E q \in Occurrences(<<NL, "Document", " ",
                                                   "contains">>) :
                                q < p

C22_Witness ==
    /\ op = "_prepare_content_for_ai"
    /\ Len(document.sections) = 2
    /\ document.title # NoText
    /\ document.images # <<>>
    /\ document.sections[1].heading # NoText
    /\ Len(document.sections[1].chunks) = 2
    /\ Len(document.sections[2].chunks) = 2
    /\ document.sections[1].chunks # document.sections[2].chunks

\* how often x is in the list
CountOf(xs, x) == Cardinality({i \in 1..Len(xs) : xs[i] = x})

\* the images of the section PDFParser.parse made of the i-th page
PageSectionImages(i) ==
    LET found == {k \in 1..Len(document.sections) :
                      document.sections[k].heading = <<"Page", " ", ToString(i)>>}
    IN IF found = {} THEN <<>>
       ELSE document.sections[CHOOSE k \in found : TRUE].images

\* C23: after PDFParser.parse with image extraction on (pypdf reading the
\* pages), every image the extractor returned for a page of the PDF is
\* exactly once in doc.images and exactly once in the images of that page's
\* section; with extraction off doc.images and every section's images are
\* empty.
C23_PdfImagesOncePerList ==
    op = "PDFParser.parse" =>
        IF call.extraction = "on"
        THEN call.pypdf = "ok" => \A k \in 1..Len(call.extracted) :
                 LET img == call.extracted[k]
                 IN (img.page_number \in 1..Len(call.pages)
                     /\ CountOf(call.extracted, img) = 1) =>
                        /\ CountOf(document.images, img) = 1
                        /\ CountOf(PageSectionImages(img.page_number), img) = 1
        ELSE /\ document.images = <<>>
             /\ \A k \in 1..Len(document.sections) :
                    document.sections[k].images = <<>>

\* the images of the add_image calls made with the section index k, oldest
\* first
AddedTo(k) ==
    LET made == SelectSeq(call.calls, LAMBDA c : c.section_index = k)
    IN [i \in 1..Len(made) |-> made[i].image]

\* C24: add_image(img, k) always appends img to the end of doc.images; it
\* appends img to sections[k].images if and only if k is given and
\* 0 <= k < number of sections, and changes no other section's images;
\* get_images_by_section(k) returns that section's images in insertion order
\* and an empty list for an out-of-range k.
C24_AddImageFrame ==
    (op \in {"UnifiedDocument", "add_image"}) =>
        /\ document.images = [i \in 1..Len(call.calls) |-> call.calls[i].image]
        /\ \A k \in (-2)..(Len(document.sections) + 1) :
               GetImagesBySection(document, k)
                   = IF 0 <= k /\ k < Len(document.sections)
                     THEN AddedTo(k) ELSE <<>>
        /\ \A i \in 1..Len(document.sections) :
               /\ document.sections[i].images = AddedTo(i - 1)
               /\ document.sections[i].chunks = <<PlainChunk(<<"a">>)>>
               /\ document.sections[i].heading = NoText

C24_Witness ==
    /\ op = "add_image"
    /\ Len(call.calls) = 2
    /\ Len(document.sections) = 2
    /\ call.calls[1].section_index = 1
    /\ call.calls[2].section_index = 1
    /\ call.calls[1].image # call.calls[2].image
    /\ Len(document.sections[2].images) = 2
    /\ document.sections[1].images = <<>>

\* C25: every piece the chunker returns is a non-empty string, for any
\* content and any budget > 0, including content with whitespace-only
\* paragraphs and content that begins directly with a section marker.
C25_PiecesNonEmpty ==
    (op = "_split_content_into_chunks" /\ chunk_size > 0) =>
        \A i \in 1..Len(chunks) : chunks[i] # <<>>

\* the sections the section loop sees, headers restored
RestoredSections ==
    LET sections == StrSplit(content, SectionSep)
    IN [i \in 1..Len(sections) |->
            IF i > 1 THEN <<Marker>> \o sections[i] ELSE sections[i]]

Levels == {"section", "paragraph", "sentence"}

\* the first units of the content are accumulated at the level
LevelApplies(level) ==
    CASE level = "section" -> TokenCount(RestoredSections[1]) <= chunk_size
      [] level = "paragraph" -> /\ ~HasSeparator(content, SectionSep)
                                /\ HasSeparator(content, ParaSep)
                                /\ TokenCount(content) > chunk_size
      [] level = "sentence" -> /\ ~HasSeparator(content, SectionSep)
                               /\ ~HasSeparator(content, ParaSep)
                               /\ TokenCount(content) > chunk_size

\* the units of the level and the text that joins two of them in a piece
Units(level) ==
    CASE level = "section" -> RestoredSections
      [] level = "paragraph" -> StrSplit(content, ParaSep)
      [] level = "sentence" -> StrSplit(content, SentSep)

Joiner(level) == IF level = "sentence" THEN SentSep ELSE ParaSep

IsPrefix(p, s) == Len(p) <= Len(s) /\ SubSeq(s, 1, Len(p)) = p

\* the first two units of the level, joined, are exactly the budget
TieAt(level) ==
    /\ op = "_split_content_into_chunks"
    /\ LevelApplies(level)
    /\ Len(Units(level)) >= 2
    /\ Units(level)[1] # <<>>
    /\ TokenCount(Units(level)[1] \o Joiner(level) \o Units(level)[2])
           = chunk_size

\* the first unit of the level is exactly the budget on its own
FirstUnitAtBudget(level) ==
    /\ op = "_split_content_into_chunks"
    /\ LevelApplies(level)
    /\ TokenCount(Units(level)[1]) = chunk_size
    /\ Strip(Units(level)[1]) # <<>>

\* C26: at the section, paragraph and sentence levels alike, a unit whose
\* addition makes the token count of the accumulated piece exactly the
\* budget is included in the current piece (a piece is closed only when the
\* addition would make the count strictly greater), and a first unit whose
\* own token count equals the budget is accepted without being split
\* further.
C26_TieBreakAtBudget ==
    \A level \in Levels :
        /\ TieAt(level) =>
               /\ Len(chunks) >= 1
               /\ chunks[1] = Strip(Units(level)[1] \o Joiner(level)
                                        \o Units(level)[2])
        /\ FirstUnitAtBudget(level) =>
               /\ Len(chunks) >= 1
               /\ Strip(chunks[1]) = Strip(Units(level)[1])

RECURSIVE SumLens(_)
SumLens(parts) ==
    IF parts = <<>> THEN 0 ELSE Len(Head(parts)) + SumLens(Tail(parts))

\* the sentences of the paragraphs of a section
SectionSentences(section) ==
    LET paragraphs == StrSplit(section, ParaSep)
    IN SumLens([i \in 1..Len(paragraphs) |-> StrSplit(paragraphs[i], SentSep)])

\* the number of sentence-level units of a text: the sentences of the
\* paragraphs of its sections
SentenceUnits(text) ==
    LET sections == StrSplit(text, SectionSep)
    IN SumLens([i \in 1..Len(sections) |->
                    [k \in 1..SectionSentences(sections[i]) |-> k]])

\* C27: the chunker returns for every content and every integer budget,
\* positive, zero or negative, and the number of pieces it returns is no
\* greater than the number of sentence-level units of the content.
C27_ChunkerReturnsBoundedPieces ==
    op = "_split_content_into_chunks" =>
        /\ pc = "done"
        /\ outcome.kind = "returned"
        /\ Len(chunks) <= SentenceUnits(content)

C27_Witness ==
    /\ op = "_split_content_into_chunks"
    /\ chunk_size < 0
    /\ SentenceUnits(content) = 3
    /\ Len(chunks) = 3

\* the positions of the registered parsers whose can_parse is true for the
\* target of the parse call
Matching ==
    {i \in 1..Len(registry) :
         CanParse(registry[i], GuessMeta(call.target, call.content_type)) = "true"}

\* C28: parse selects the first parser in registration order whose can_parse
\* returns true, skipping any parser whose can_parse raises; if none matches
\* it uses the parser named 'text', so for an existing target (or a URL) it
\* dispatches to exactly one parser; a non-URL target that does not exist
\* fails with FileNotFoundError before any parser is consulted.
C28_DispatchFirstMatchOrText ==
    op = "parse" =>
        IF ~IsUrl(call.target) /\ ~call.target.exists
        THEN /\ outcome = Raised("FileNotFoundError")
             /\ call.consulted = <<>>
             /\ call.dispatched = <<>>
        ELSE /\ Len(call.dispatched) = 1
             /\ outcome.error \notin {"FileNotFoundError", "RuntimeError"}
             /\ IF Matching # {}
                THEN /\ call.dispatched[1] \in Matching
                     /\ \A k \in Matching : call.dispatched[1] <= k
                     /\ call.consulted = [i \in 1..call.dispatched[1] |-> i]
                ELSE /\ registry[call.dispatched[1]].name = "text"
                     /\ call.consulted = [i \in 1..Len(registry) |-> i]

C28_Witness ==
    /\ op = "parse"
    /\ Len(call.dispatched) = 1
    /\ call.dispatched[1] = 3
    /\ CanParse(registry[1], GuessMeta(call.target, call.content_type)) = "raises"
    /\ CanParse(registry[2], GuessMeta(call.target, call.content_type)) = "false"
    /\ registry[3].name = "text"
    /\ Matching = {}

\* the names of the entry-point parsers in the registry, in registration
\* order
RegisteredPlugins ==
    LET made == SelectSeq(registry, LAMBDA p : p.origin = "entry_point")
    IN [i \in 1..Len(made) |-> made[i].name]

\* the names of the installed entry points that load, in order
LoadablePlugins ==
    LET ok == SelectSeq(entry_points.eps, LAMBDA ep : ep.load = "ok")
    IN [i \in 1..Len(ok) |-> ok[i].name]

\* loading ran at most once, registered every entry point that loads once
\* and skipped the ones that fail
LoadedOnce ==
    /\ load_runs <= 1
    /\ loaded_eps <=> load_runs = 1
    /\ \A i, j \in 1..Len(RegisteredPlugins) :
           RegisteredPlugins[i] = RegisteredPlugins[j] => i = j
    /\ RegisteredPlugins = IF loaded_eps THEN LoadablePlugins ELSE <<>>

\* C29 as stated: across any sequence of parse and parse_folder calls the
\* entry-point loading runs at most once, after the first call the loaded
\* flag is true and stays true, no entry-point parser is registered twice,
\* and a plugin that fails to load is skipped while the others are
\* registered.
C29_LoadedAfterFirstCall ==
    op \in CoreOps => (loaded_eps /\ LoadedOnce)

\* the call reached _ensure_parsers_loaded: every parse call, and a
\* parse_folder call on a directory that holds at least one file
ReachedLoading ==
    \/ op = "parse"
    \/ op = "parse_folder" /\ call.summary.total_files_found > 0

\* C29: across any sequence of parse and parse_folder calls the entry-point
\* loading runs at most once; the loaded flag is true after every parse call
\* and after every parse_folder call that met a file, and true from the
\* first run of the loading on; no entry-point parser is registered twice,
\* and a plugin that fails to load is skipped while the others are
\* registered.  A parse_folder call on a folder without files, or on a path
\* that is no directory, leaves the flag as it was.
C29_InitOnce ==
    op \in CoreOps =>
        /\ LoadedOnce
        /\ ReachedLoading => loaded_eps
        /\ (op = "parse_folder" /\ call.n = 1 /\ ~ReachedLoading) => ~loaded_eps

C29_Witness ==
    /\ op \in CoreOps
    /\ call.n = 2
    /\ loaded_eps
    /\ load_runs = 1
    /\ Len(entry_points.eps) = 2
    /\ entry_points.eps[1].load = "raises"
    /\ entry_points.eps[2].load = "ok"
    /\ RegisteredPlugins = <<PluginName(2)>>

\* the names of the files in a list
FileNames(files) == [i \in 1..Len(files) |-> files[i].name]

\* C30: after parse_folder returns, files_parsed_successfully + files_failed
\* is the number of files the scan selected, every selected file is either
\* the source of exactly one returned document or listed exactly once in
\* failed_files_list, a file whose parse raises does not stop the files
\* after it, and the returned documents are in scan order.
C30_FolderAccounting ==
    (op = "parse_folder" /\ outcome.kind = "returned") =>
        LET selected == ScanFolder(call.folder.files, registry)
            sources == [i \in 1..Len(call.documents) |-> call.documents[i].source]
            failed == [i \in 1..Len(call.summary.failed_files_list) |->
                           call.summary.failed_files_list[i][1]]
        IN /\ call.summary.files_parsed_successfully + call.summary.files_failed
                  = Len(selected)
           /\ call.summary.files_parsed_successfully = Len(call.documents)
           /\ call.summary.files_failed = Len(failed)
           /\ \A i \in 1..Len(selected) :
                  CountOf(sources, selected[i].name)
                      + CountOf(failed, selected[i].name) = 1
           /\ sources = FileNames(SelectSeq(selected,
                                            LAMBDA f : CountOf(failed, f.name) = 0))

C30_Witness ==
    /\ op = "parse_folder"
    /\ outcome.kind = "returned"
    /\ Len(call.folder.files) = 2
    /\ call.summary.files_failed = 1
    /\ call.summary.failed_files_list[1][1] = "f1"
    /\ Len(call.documents) = 1
    /\ call.documents[1].source = "f2"

====
